---- MODULE Spec2Model ----
(***************************************************************************)
(* Model of lexlib's streaming UTF-8 readers (src/io/utf8.rs) and of its   *)
(* string scanners (src/text/scanner_lite.rs, src/text/scanner.rs).        *)
(*                                                                         *)
(* Bytes are integers 0..255, offsets are 0-based as in the code and a     *)
(* byte sequence b holds the byte at offset i in b[i + 1].  A char is its  *)
(* Unicode scalar value.                                                   *)
(***************************************************************************)
EXTENDS Integers, Sequences, FiniteSets, TLC

\* ------------------------------------------------------------------ bounds

\* Longest &str given to a scanner, in chars.
MaxChars == 3
\* Longest literal a scanner is asked to expect, in chars.
MaxLit == 2
\* Longest well-formed part of a stream whose reads are followed to their
\* end, in chars.
MaxLiveLen == 3
\* Longest well-formed part of a stream, in bytes.
MaxLen == 6
\* Largest capacity of the caller's buffer, in bytes.
MaxCap == 5

\* --------------------------------------------------------------- UTF-8

Min(a, b) == IF a < b THEN a ELSE b

\* char::encode_utf8: the bytes a &str holds for one char.
EncodeUtf8(c) ==
    IF c < 128 THEN <<c>>
    ELSE IF c < 2048 THEN <<192 + (c \div 64), 128 + (c % 64)>>
    ELSE IF c < 65536
        THEN <<224 + (c \div 4096), 128 + ((c \div 64) % 64), 128 + (c % 64)>>
    ELSE <<240 + (c \div 262144), 128 + ((c \div 4096) % 64),
           128 + ((c \div 64) % 64), 128 + (c % 64)>>

RECURSIVE EncodeStr(_)
\* The bytes of the &str made of the chars cs.
EncodeStr(cs) ==
    IF cs = <<>> THEN <<>> ELSE EncodeUtf8(Head(cs)) \o EncodeStr(Tail(cs))

\* core::str::validations::UTF8_CHAR_WIDTH: the length a first byte
\* announces, 0 for a byte that can start no char.
Utf8CharWidth(b) ==
    IF b < 128 THEN 1
    ELSE IF b >= 194 /\ b <= 223 THEN 2
    ELSE IF b >= 224 /\ b <= 239 THEN 3
    ELSE IF b >= 240 /\ b <= 244 THEN 4
    ELSE 0

IsCont(b) == b >= 128 /\ b <= 191

\* The range the second byte of a char must lie in, given its first byte
\* (no overlong forms, no surrogates, nothing above U+10FFFF).
SecondByteOk(first, second) ==
    IF first = 224 THEN second >= 160 /\ second <= 191
    ELSE IF first = 237 THEN second >= 128 /\ second <= 159
    ELSE IF first = 240 THEN second >= 144 /\ second <= 191
    ELSE IF first = 244 THEN second >= 128 /\ second <= 143
    ELSE IsCont(second)

\* Does a complete, valid char start at offset i of b[0, n)?
CharAt(b, i, n) ==
    LET w == Utf8CharWidth(b[i + 1]) IN
    /\ w > 0
    /\ i + w <= n
    /\ w >= 2 => SecondByteOk(b[i + 1], b[i + 2])
    /\ w >= 3 => IsCont(b[i + 3])
    /\ w >= 4 => IsCont(b[i + 4])

RECURSIVE ValidUpTo(_, _, _)
\* <[u8]>::utf8_chunks().next().valid().len() on b[0, n), scanning from
\* offset i: the length of the longest prefix made of whole valid chars.
ValidUpTo(b, i, n) ==
    IF i < n /\ CharAt(b, i, n)
        THEN ValidUpTo(b, i + Utf8CharWidth(b[i + 1]), n)
        ELSE i

\* core::str::validations::next_code_point on the valid char at offset i.
DecodeAt(b, i) ==
    LET x == b[i + 1] IN
    IF x < 128 THEN x
    ELSE IF x < 224 THEN (x % 32) * 64 + (b[i + 2] % 64)
    ELSE IF x < 240
        THEN (x % 32) * 4096 + (b[i + 2] % 64) * 64 + (b[i + 3] % 64)
    ELSE (x % 8) * 262144 + (b[i + 2] % 64) * 4096
             + (b[i + 3] % 64) * 64 + (b[i + 4] % 64)

\* How many bytes str::Chars::next consumes for a char whose first byte is x.
NextWidth(x) ==
    IF x < 128 THEN 1 ELSE IF x < 224 THEN 2 ELSE IF x < 240 THEN 3 ELSE 4

\* Option<char>
Some(c) == [tag |-> "Some", ch |-> c]
None == [tag |-> "None", ch |-> 0]
\* No call has returned yet.
NoCall == [tag |-> "NoCall", ch |-> 0]
\* io::Result<Option<char>>::Err
Failed == [tag |-> "Err", ch |-> 0]

\* str::Chars::next on the iterator [ptr, e) over the bytes b: the item it
\* returns and where the iterator stands afterwards.
CharsNext(b, ptr, e) ==
    IF ptr = e THEN [item |-> None, ptr |-> ptr]
    ELSE [item |-> Some(DecodeAt(b, ptr)), ptr |-> ptr + NextWidth(b[ptr + 1])]

\* ------------------------------------------------------------- the inputs

\* One char of each encoded length: 'a', U+00E9, U+20AC, U+1F600.
SampleChars == {97, 233, 8364, 128512}

RECURSIVE CharSeqs(_)
\* The strings over SampleChars of at most n bytes.
CharSeqs(n) ==
    IF n = 0 THEN {<<>>}
    ELSE LET shorter == CharSeqs(n - 1) IN
         shorter \cup
         {Append(s, c) : <<s, c>> \in
             {p \in shorter \X SampleChars :
                 Len(EncodeStr(p[1])) + Len(EncodeUtf8(p[2])) <= n}}

\* The string "h\u{e9}llo\n" of the capacity-3 scenario.
Hello == <<104, 233, 108, 108, 111, 10>>

\* What a stream that is not UTF-8 can continue with after its well-formed
\* part: a byte that starts no char, a stray continuation byte, a char cut
\* short by the end of the stream or by the next byte, an overlong form, a
\* surrogate, a value above U+10FFFF.
Malformed ==
    { <<255>>, <<255, 97>>, <<169>>,
      <<195>>, <<226>>, <<226, 169>>, <<240>>, <<240, 169>>, <<240, 169, 169>>,
      <<195, 97>>, <<226, 169, 97>>, <<240, 169, 169, 97>>,
      <<192, 128>>, <<224, 128, 128>>, <<237, 160, 128>>,
      <<244, 144, 128, 128>> }

StreamChars == CharSeqs(MaxLen) \cup {Hello}

\* The chars of the strings given to the scanners: 'a', '\n', U+00A0 (a
\* whitespace char of two bytes) and a char of three and one of four bytes.
ScanChars == {97, 10, 160, 8364, 128512}

\* The strings "foo bar" and "a\nbc" of the position scenarios.
FooBar == <<102, 111, 111, 32, 98, 97, 114>>
Lines == <<97, 10, 98, 99>>

\* Strings of ASCII chars that start with whitespace: tab, form feed,
\* carriage return and space before 'a', and space, vertical tab (U+000B)
\* and space before 'a'.
AsciiBlanks == {<<9, 12, 13, 32, 97>>, <<32, 11, 32, 97>>}

ScanStrings ==
    UNION {[1 .. n -> ScanChars] : n \in 0 .. MaxChars}
        \cup {FooBar, Lines} \cup AsciiBlanks

\* The literals the scanners are asked to expect: "", strings of 'a' and of
\* a char of three bytes, and "foo".
Literals ==
    UNION {[1 .. n -> {97, 8364}] : n \in 0 .. MaxLit} \cup {<<102, 111, 111>>}

\* char::is_whitespace: the chars with the White_Space property.
WhiteSpace ==
    (9 .. 13) \cup {32, 133, 160, 5760} \cup (8192 .. 8202)
        \cup {8232, 8233, 8239, 8287, 12288}

\* u8::is_ascii_whitespace: space, tab, line feed, form feed, carriage return.
AsciiWhiteSpace == {32, 9, 10, 12, 13}

\* The conditions given to skip_chars_while, take_while and take_char_if,
\* each as the set of chars it accepts.
Conditions == {{}, {97}, {97, 10}, {160, 8364, 128512}, ScanChars \ {10}}

Capacities == 0 .. MaxCap

ErrorKinds == {"BrokenPipe", "TimedOut"}

\* ------------------------------------------------------------------ state

VARIABLES
    input,        \* the bytes the Byte Source will deliver, in order
    input_chars,  \* the chars of the well-formed part of input
    pos,          \* how many bytes of input the source has delivered
    cap,          \* buf.len(), the capacity of the caller's buffer
    buf,          \* Utf8ChunkReader::buf
    len,          \* Utf8ChunkReader::len
    len_utf8,     \* Utf8ChunkReader::len_utf8
    pc,           \* "idle" between calls, "fill" inside the fill loop
    result,       \* what the last read_chunk returned: "Ok(true)", "Ok(false)",
                  \* or the kind of its error
    last_io,      \* what inner.read last returned to the latest read_chunk:
                  \* "none" (not called), "ok", "eof", "interrupted" or the
                  \* kind of its error
    carried,      \* tail_len of the latest read_chunk
    src_failed,   \* has inner.read ever returned a hard error
    out,          \* the chunks returned with Ok(true), concatenated
    mode,         \* what the caller holds: "chunk", a Utf8ChunkReader; "char",
                  \* a Utf8CharReader; "lite", a ScannerLite; "scanner", a
                  \* Scanner
    iter_ptr,     \* Utf8CharReader::iter, offset of its next byte in buf
    iter_end,     \* Utf8CharReader::iter, offset of its end in buf
    char_ret,     \* what the last read_char returned
    chars_out,    \* the chars returned by read_char, in order
    src,          \* the bytes of the &str the scanners walk
    src_chars,    \* the chars of that &str
    lite,         \* a ScannerLite over src: [start, end], offsets into src
    lite_ret,     \* what the last call on lite returned
    lite_out,     \* the chars lite has consumed, in order
    scanner,      \* a Scanner over src: [start, head, peek, tail, line, column],
                  \* the pointers as offsets into src, tail as [ptr, end]
    scanner_ret,  \* what the last call on scanner returned
    scanner_out,  \* the chars scanner has consumed, in order
    op            \* the name of the method last called on a scanner

reader_vars == <<input, input_chars, pos, cap, buf, len, len_utf8, pc, result,
                 last_io, carried, src_failed, out>>
char_vars == <<mode, iter_ptr, iter_end, char_ret, chars_out>>
scan_vars == <<src, src_chars, lite, lite_ret, lite_out, scanner, scanner_ret,
               scanner_out, op>>
vars == <<reader_vars, char_vars, scan_vars>>

\* Utf8ChunkReader::new(buf, inner) with a buffer of c bytes and a source
\* delivering the chars cs followed by the bytes bad.
NewReader(cs, bad, c) ==
    /\ input = EncodeStr(cs) \o bad
    /\ input_chars = cs
    /\ cap = c
    /\ buf = [i \in 1 .. c |-> 0]
    /\ pos = 0
    /\ len = 0
    /\ len_utf8 = 0
    /\ pc = "idle"
    /\ result = "NoCall"
    /\ last_io = "none"
    /\ carried = 0
    /\ src_failed = FALSE
    /\ out = <<>>

\* Utf8CharReader::new: iter is "".chars().
InitIter ==
    /\ iter_ptr = 0
    /\ iter_end = 0
    /\ char_ret = NoCall
    /\ chars_out = <<>>

\* ScannerLite::new(source_str) and Scanner::new(source_str) on the &str
\* made of the chars cs.
NewScanners(cs) ==
    LET bytes == EncodeStr(cs)
        first == CharsNext(bytes, 0, Len(bytes))
    IN  /\ src = bytes
        /\ src_chars = cs
        /\ lite = [start |-> 0, end |-> Len(bytes)]
        /\ lite_ret = NoCall
        /\ lite_out = <<>>
        /\ scanner = [start |-> 0, head |-> 0, peek |-> first.item,
                      tail |-> [ptr |-> first.ptr, end |-> Len(bytes)],
                      line |-> 1, column |-> 1]
        /\ scanner_ret = NoCall
        /\ scanner_out = <<>>
        /\ op = "new"

\* A reader over a source delivering a well-formed part followed by nothing
\* or by one malformed continuation.
InitReader ==
    /\ \E cs \in StreamChars, bad \in Malformed \cup {<<>>}, c \in Capacities :
        NewReader(cs, bad, c)
    /\ InitIter
    /\ NewScanners(<<>>)

Init == InitReader /\ mode = "chunk"

\* Utf8ChunkReader::chunk
chunk == SubSeq(buf, 1, len_utf8)

\* ---------------------------------------------------------- read_chunk

\* A copy that moves nothing.
CopyNothing(b, from, n) == b

\* ptr::copy(tail_ptr, buf_ptr, tail_len): the bytes [from, from + n) moved
\* to the front, the rest of the buffer left as it was.
CopyToFront(b, from, n) ==
    [i \in 1 .. Len(b) |-> IF i <= n THEN b[from + i] ELSE b[i]]

\* An outcome that skips the check of len_utf8.
OutcomeUnchecked(b, n) == IF n = 0 THEN "Ok(false)" ELSE "Ok(true)"

\* An outcome that takes a buffer starting with invalid bytes for the end
\* of the stream.
OutcomeSkipsInvalid(b, n) ==
    IF n = 0 \/ ValidUpTo(b, 0, n) = 0 THEN "Ok(false)" ELSE "Ok(true)"

\* The outcome of read_chunk once the fill loop is over, on n bytes in b.
Outcome(b, n) ==
    IF n = 0 THEN "Ok(false)"
    ELSE IF ValidUpTo(b, 0, n) = 0 THEN "InvalidData"
    ELSE "Ok(true)"

\* A read_char that returns the first char of a new chunk and leaves it in
\* the cursor.
ReadCharRepeats(res, b, valid) ==
    IF mode = "char"
    THEN /\ iter_end' = valid
         /\ iter_ptr' = 0
         /\ IF res = "Ok(true)"
            THEN /\ char_ret' = Some(DecodeAt(b, 0))
                 /\ chars_out' = Append(chars_out, DecodeAt(b, 0))
            ELSE /\ char_ret' = IF res = "Ok(false)" THEN None ELSE Failed
                 /\ chars_out' = chars_out
         /\ mode' = mode
    ELSE UNCHANGED char_vars

\* The rest of read_char once read_chunk has returned res with valid bytes
\* [0, valid) in b: iter is the new chunk, its first char is taken on true.
ReadCharReturns(res, b, valid) ==
    IF mode = "char"
    THEN /\ iter_end' = valid
         /\ IF res = "Ok(true)"
            THEN LET n == CharsNext(b, 0, valid) IN
                 /\ iter_ptr' = n.ptr
                 /\ char_ret' = n.item
                 /\ chars_out' = Append(chars_out, n.item.ch)
            ELSE /\ iter_ptr' = 0
                 /\ char_ret' = IF res = "Ok(false)" THEN None ELSE Failed
                 /\ chars_out' = chars_out
         /\ mode' = mode
    ELSE UNCHANGED char_vars

\* read_chunk from the end of the fill loop on: no data, or validation.
Finish(b, n) ==
    LET valid == ValidUpTo(b, 0, n)
        res == Outcome(b, n)
    IN  /\ len_utf8' = valid
        /\ result' = res
        /\ pc' = "idle"
        /\ out' = IF res = "Ok(true)" THEN out \o SubSeq(b, 1, valid) ELSE out
        /\ ReadCharReturns(res, b, valid)

\* A tail that is dropped instead of carried over.
TailDropped(l, valid) == 0

\* let tail_len = self.len - self.len_utf8
TailLen(l, valid) == l - valid

\* A start of read_chunk that leaves len_utf8 as the last call set it.
BeginReadChunkKeepsValid ==
    LET tail_len == TailLen(len, len_utf8)
        b == CopyToFront(buf, len_utf8, tail_len)
    IN  /\ buf' = b
        /\ len' = tail_len
        /\ carried' = tail_len
        /\ last_io' = "none"
        /\ UNCHANGED <<input, input_chars, pos, cap, src_failed>>
        /\ IF tail_len # cap
            THEN /\ len_utf8' = len_utf8
                 /\ pc' = "fill"
                 /\ UNCHANGED <<result, out, char_vars>>
            ELSE Finish(b, tail_len)

\* read_chunk up to its first call of inner.read: the tail is moved to the
\* front; a buffer the tail already fills skips the loop.
BeginReadChunk ==
    LET tail_len == TailLen(len, len_utf8)
        b == CopyToFront(buf, len_utf8, tail_len)
    IN  /\ buf' = b
        /\ len' = tail_len
        /\ carried' = tail_len
        /\ last_io' = "none"
        /\ UNCHANGED <<input, input_chars, pos, cap, src_failed>>
        /\ IF tail_len # cap
            THEN /\ len_utf8' = 0
                 /\ pc' = "fill"
                 /\ UNCHANGED <<result, out, char_vars>>
            ELSE Finish(b, tail_len)

\* A caller of a Utf8ChunkReader calls read_chunk.
ReadChunk ==
    /\ mode = "chunk"
    /\ pc = "idle"
    /\ BeginReadChunk
    /\ UNCHANGED scan_vars

\* inner.read returns Ok(n), n > 0: a read of any size the region and the
\* rest of the stream allow.
FillOk ==
    /\ pc = "fill"
    /\ \E n \in 1 .. Min(cap - len, Len(input) - pos) :
        LET b == [i \in 1 .. cap |->
                    IF i > len /\ i <= len + n THEN input[pos + i - len] ELSE buf[i]]
        IN  /\ buf' = b
            /\ len' = len + n
            /\ pos' = pos + n
            /\ last_io' = "ok"
            /\ UNCHANGED <<input, input_chars, cap, carried, src_failed, scan_vars>>
            /\ IF len + n # cap
                THEN UNCHANGED <<len_utf8, pc, result, out, char_vars>>
                ELSE Finish(b, len + n)

\* An Ok(0) that is taken for a short read: the loop goes round again.
FillEofRetried ==
    /\ pc = "fill"
    /\ pos = Len(input)
    /\ last_io' = "eof"
    /\ UNCHANGED <<input, input_chars, pos, cap, buf, len, len_utf8, pc, result,
                   carried, src_failed, out, char_vars, scan_vars>>

\* inner.read returns Ok(0): the stream is exhausted.
FillEof ==
    /\ pc = "fill"
    /\ pos = Len(input)
    /\ last_io' = "eof"
    /\ UNCHANGED <<input, input_chars, pos, cap, buf, len, carried, src_failed,
                   scan_vars>>
    /\ Finish(buf, len)

\* An interruption that ends the fill loop as the end of the stream does.
FillInterruptedBreaks ==
    /\ pc = "fill"
    /\ last_io' = "interrupted"
    /\ UNCHANGED <<input, input_chars, pos, cap, buf, len, carried, src_failed,
                   scan_vars>>
    /\ Finish(buf, len)

\* inner.read returns Err of kind Interrupted: the loop goes round again.
FillInterrupted ==
    /\ pc = "fill"
    /\ last_io' = "interrupted"
    /\ UNCHANGED <<input, input_chars, pos, cap, buf, len, len_utf8, pc, result,
                   carried, src_failed, out, char_vars, scan_vars>>

\* A hard error that is swallowed: the loop goes round again.
FillErrRetried ==
    /\ pc = "fill"
    /\ \E kind \in ErrorKinds : last_io' = kind
    /\ src_failed' = TRUE
    /\ UNCHANGED <<input, input_chars, pos, cap, buf, len, len_utf8, pc, result,
                   carried, out, char_vars, scan_vars>>

\* A hard error on which the bytes read so far are given up.
FillErrDropsBytes ==
    /\ pc = "fill"
    /\ \E kind \in ErrorKinds :
        /\ last_io' = kind
        /\ result' = kind
        /\ ReadCharReturns(kind, buf, len_utf8)
    /\ pc' = "idle"
    /\ len' = 0
    /\ src_failed' = TRUE
    /\ UNCHANGED <<input, input_chars, pos, cap, buf, len_utf8, carried, out,
                   scan_vars>>

\* inner.read returns any other Err: read_chunk returns it.
FillErr ==
    /\ pc = "fill"
    /\ \E kind \in ErrorKinds :
        /\ last_io' = kind
        /\ result' = kind
        /\ ReadCharReturns(kind, buf, len_utf8)
    /\ pc' = "idle"
    /\ src_failed' = TRUE
    /\ UNCHANGED <<input, input_chars, pos, cap, buf, len, len_utf8, carried, out,
                   scan_vars>>

\* ----------------------------------------------------------- read_char

\* A caller of a Utf8CharReader calls read_char: the next char of the
\* current chunk, or else read_chunk.
ReadChar ==
    /\ mode = "char"
    /\ pc = "idle"
    /\ IF iter_ptr # iter_end
        THEN LET n == CharsNext(buf, iter_ptr, iter_end) IN
             /\ iter_ptr' = n.ptr
             /\ char_ret' = n.item
             /\ chars_out' = Append(chars_out, n.item.ch)
             /\ UNCHANGED <<reader_vars, mode, iter_end>>
        ELSE BeginReadChunk
    /\ UNCHANGED scan_vars

Next == ReadChunk \/ FillOk \/ FillEof \/ FillInterrupted \/ FillErr

Spec == Init /\ [][Next]_vars

\* The chunk reader over a source whose calls return and which does not
\* signal interruption for ever: a call that can return bytes or 0 does.
InitLive ==
    /\ \E cs \in CharSeqs(MaxLiveLen) \cup {Hello},
          bad \in Malformed \cup {<<>>}, c \in Capacities :
            NewReader(cs, bad, c)
    /\ InitIter
    /\ NewScanners(<<>>)
    /\ mode = "chunk"

SpecLive == InitLive /\ [][Next]_vars /\ WF_vars(FillOk \/ FillEof)

InitChar == InitReader /\ mode = "char"

NextCharReader == ReadChar \/ FillOk \/ FillEof \/ FillInterrupted \/ FillErr

SpecChar == InitChar /\ [][NextCharReader]_vars

\* ------------------------------------------------------------ ScannerLite

\* What the methods return besides Option<char>: bool, usize, &str, ().
Bool(b) == [tag |-> "bool", val |-> b]
Usize(n) == [tag |-> "usize", val |-> n]
Str(bytes) == [tag |-> "str", val |-> bytes]
Unit == [tag |-> "unit", val |-> 0]

\* char::len_utf8
CharLenUtf8(c) == IF c < 128 THEN 1 ELSE IF c < 2048 THEN 2 ELSE IF c < 65536 THEN 3 ELSE 4

\* u8::leading_ones
leading_ones(b) ==
    IF b < 128 THEN 0 ELSE IF b < 192 THEN 1 ELSE IF b < 224 THEN 2
    ELSE IF b < 240 THEN 3 ELSE IF b < 248 THEN 4 ELSE IF b < 252 THEN 5
    ELSE IF b < 254 THEN 6 ELSE IF b < 255 THEN 7 ELSE 8

IsPrefix(s, t) == Len(s) <= Len(t) /\ s = SubSeq(t, 1, Len(s))

RECURSIVE DecodeRange(_, _, _)
\* The chars str::Chars yields over the bytes [from, to) of b.
DecodeRange(b, from, to) ==
    IF from >= to THEN <<>>
    ELSE <<DecodeAt(b, from)>> \o DecodeRange(b, from + NextWidth(b[from + 1]), to)

\* ScannerLite::is_done
is_done(l) == l.start = l.end

\* ScannerLite::remaining_len
lite_remaining_len(l) == l.end - l.start

\* ScannerLite::remaining_str
lite_remaining_str(l) == SubSeq(src, l.start + 1, l.start + lite_remaining_len(l))

\* ScannerLite::skip_bytes_unchecked
skip_bytes_unchecked(l, n) == [l EXCEPT !.start = @ + n]

\* ScannerLite::expect_char_unchecked
expect_char_unchecked(l, expected) == skip_bytes_unchecked(l, CharLenUtf8(expected))

\* ScannerLite::expect_char
expect_char(l, expected) ==
    IF ~IsPrefix(EncodeUtf8(expected), lite_remaining_str(l))
        THEN [lite |-> l, ret |-> Bool(FALSE)]
        ELSE [lite |-> expect_char_unchecked(l, expected), ret |-> Bool(TRUE)]

\* An expect_str_unchecked that skips a byte for each char of expected.
expect_str_skipping_chars(l, expected) == skip_bytes_unchecked(l, Len(expected))

\* ScannerLite::expect_str_unchecked, expected given as its chars
expect_str_unchecked(l, expected) == skip_bytes_unchecked(l, Len(EncodeStr(expected)))

\* ScannerLite::expect_str
expect_str(l, expected) ==
    IF ~IsPrefix(EncodeStr(expected), lite_remaining_str(l))
        THEN [lite |-> l, ret |-> Bool(FALSE)]
        ELSE [lite |-> expect_str_unchecked(l, expected), ret |-> Bool(TRUE)]

\* A next_char that decodes on a copy of the scanner, as peek_char does.
next_char_on_clone(l) ==
    [lite |-> l, ret |-> CharsNext(src, l.start, l.end).item]

\* ScannerLite::next_char: Chars::next on the scanner taken as a Chars, its
\* start being the iterator's pointer and its end the iterator's end.
next_char(l) ==
    LET n == CharsNext(src, l.start, l.end) IN
    [lite |-> [l EXCEPT !.start = n.ptr], ret |-> n.item]

\* ScannerLite::peek_byte
peek_byte(l) == IF is_done(l) THEN None ELSE Some(src[l.start + 1])

\* ScannerLite::peek_char: next_char on a clone of the scanner
lite_peek_char(l) == LET clone == l IN next_char(clone).ret

RECURSIVE next_line_loop(_)
\* The loop of next_line: byte after byte up to and including a line feed.
next_line_loop(l) ==
    IF peek_byte(l) = None THEN l
    ELSE IF peek_byte(l) = Some(10) THEN skip_bytes_unchecked(l, 1)
    ELSE next_line_loop(skip_bytes_unchecked(l, 1))

\* ScannerLite::next_line
next_line(l) ==
    LET after == next_line_loop(l) IN
    [lite |-> after, ret |-> Str(SubSeq(src, l.start + 1, after.start))]

RECURSIVE skip_ascii_whitespace(_)
\* ScannerLite::skip_ascii_whitespace
skip_ascii_whitespace(l) ==
    IF peek_byte(l) = None \/ peek_byte(l).ch \notin AsciiWhiteSpace THEN l
    ELSE skip_ascii_whitespace([l EXCEPT !.start = @ + 1])

\* A skip_char that takes the leading ones of every first byte.
skip_char_by_leading_ones(l) ==
    IF l.start = l.end THEN [lite |-> l, ret |-> Bool(FALSE)]
    ELSE [lite |-> skip_bytes_unchecked(l, leading_ones(src[l.start + 1])),
          ret |-> Bool(TRUE)]

\* ScannerLite::skip_char
skip_char(l) ==
    IF l.start = l.end THEN [lite |-> l, ret |-> Bool(FALSE)]
    ELSE LET first_byte == src[l.start + 1]
             n == IF first_byte < 128 THEN 1 ELSE leading_ones(first_byte)
         IN  [lite |-> skip_bytes_unchecked(l, n), ret |-> Bool(TRUE)]

RECURSIVE skip_chars_while(_, _)
\* ScannerLite::skip_chars_while, condition given as the chars it accepts
skip_chars_while(l, condition) ==
    IF lite_peek_char(l) = None \/ lite_peek_char(l).ch \notin condition THEN l
    ELSE skip_chars_while([l EXCEPT !.start = @ + CharLenUtf8(lite_peek_char(l).ch)],
                          condition)

\* ScannerLite::skip_whitespace
skip_whitespace(l) == skip_chars_while(l, WhiteSpace)

\* A caller calls the method named name on lite, which leaves it as after
\* and returns ret.
LiteCall(name, after, ret) ==
    /\ mode = "lite"
    /\ op' = name
    /\ lite' = after
    /\ lite_ret' = ret
    /\ lite_out' = lite_out \o DecodeRange(src, lite.start, after.start)
    /\ UNCHANGED <<src, src_chars, scanner, scanner_ret, scanner_out,
                   reader_vars, char_vars>>

ExpectChar ==
    \E c \in ScanChars :
        LET r == expect_char(lite, c) IN LiteCall("expect_char", r.lite, r.ret)

ExpectStr ==
    \E s \in Literals :
        LET r == expect_str(lite, s) IN LiteCall("expect_str", r.lite, r.ret)

IsDone == LiteCall("is_done", lite, Bool(is_done(lite)))

NextChar == LET r == next_char(lite) IN LiteCall("next_char", r.lite, r.ret)

NextLine == LET r == next_line(lite) IN LiteCall("next_line", r.lite, r.ret)

PeekByte == LiteCall("peek_byte", lite, peek_byte(lite))

\* A peek_char that calls next_char on the scanner itself.
LitePeekCharAdvances ==
    LET r == next_char(lite) IN LiteCall("peek_char", r.lite, r.ret)

LitePeekChar == LiteCall("peek_char", lite, lite_peek_char(lite))

LiteRemainingLen == LiteCall("remaining_len", lite, Usize(lite_remaining_len(lite)))

LiteRemainingStr == LiteCall("remaining_str", lite, Str(lite_remaining_str(lite)))

SkipAsciiWhitespace ==
    LiteCall("skip_ascii_whitespace", skip_ascii_whitespace(lite), Unit)

SkipChar == LET r == skip_char(lite) IN LiteCall("skip_char", r.lite, r.ret)

SkipCharsWhile ==
    \E condition \in Conditions :
        LiteCall("skip_chars_while", skip_chars_while(lite, condition), Unit)

SkipWhitespace == LiteCall("skip_whitespace", skip_whitespace(lite), Unit)

\* ---------------------------------------------------------------- Scanner

\* Scanner::as_ptr
as_ptr(sc) == sc.head

\* Scanner::column
column(sc) == sc.column

\* Scanner::line
line(sc) == sc.line

\* A consume_char_unchecked whose column advances by the bytes of the char.
consume_char_counting_bytes(sc) ==
    LET n == CharsNext(src, sc.tail.ptr, sc.tail.end) IN
    [sc EXCEPT !.line = IF sc.peek = Some(10) THEN @ + 1 ELSE @,
               !.column = IF sc.peek = Some(10) THEN 1 ELSE @ + (sc.tail.ptr - sc.head),
               !.head = sc.tail.ptr,
               !.peek = n.item,
               !.tail.ptr = n.ptr]

\* Scanner::consume_char_unchecked, called with a peeked char.
consume_char_unchecked(sc) ==
    LET n == CharsNext(src, sc.tail.ptr, sc.tail.end) IN
    [sc EXCEPT !.line = IF sc.peek = Some(10) THEN @ + 1 ELSE @,
               !.column = IF sc.peek = Some(10) THEN 1 ELSE @ + 1,
               !.head = sc.tail.ptr,
               !.peek = n.item,
               !.tail.ptr = n.ptr]

\* Scanner::peek_char
peek_char(sc) == sc.peek

\* Scanner::position
position(sc) == sc.head - sc.start

\* Scanner::slice_back_unchecked, from a pointer as_ptr gave earlier
slice_back_unchecked(sc, from) == SubSeq(src, from + 1, from + (sc.head - from))

\* Scanner::preceding_str
preceding_str(sc) == slice_back_unchecked(sc, sc.start)

\* A remaining_len that leaves out the bytes of the peeked char.
remaining_len_of_tail(sc) == sc.tail.end - sc.tail.ptr

\* Scanner::remaining_len
remaining_len(sc) == (sc.tail.end - sc.tail.ptr) + (sc.tail.ptr - sc.head)

\* Scanner::remaining_str
remaining_str(sc) == SubSeq(src, sc.head + 1, sc.head + remaining_len(sc))

\* The methods that consume give the scanner they leave, what they return
\* and, as taken, the chars they passed to consume_char_unchecked.

\* A take_char that consumes without looking at what peek_char gave.
take_char_unguarded(sc) ==
    [scanner |-> consume_char_unchecked(sc), ret |-> peek_char(sc),
     taken |-> IF peek_char(sc) = None THEN <<>> ELSE <<peek_char(sc).ch>>]

\* Scanner::take_char
take_char(sc) ==
    IF peek_char(sc) = None
        THEN [scanner |-> sc, ret |-> None, taken |-> <<>>]
        ELSE [scanner |-> consume_char_unchecked(sc), ret |-> peek_char(sc),
              taken |-> <<peek_char(sc).ch>>]

RECURSIVE consume_line(_)
\* Scanner::consume_line
consume_line(sc) ==
    LET t == take_char(sc) IN
    IF t.ret = None \/ t.ret = Some(10) THEN [scanner |-> t.scanner, taken |-> t.taken]
    ELSE LET rest == consume_line(t.scanner) IN
         [scanner |-> rest.scanner, taken |-> t.taken \o rest.taken]

RECURSIVE consume_while(_, _)
\* Scanner::consume_while, condition given as the chars it accepts
consume_while(sc, condition) ==
    IF sc.peek = None \/ sc.peek.ch \notin condition
        THEN [scanner |-> sc, taken |-> <<>>]
        ELSE LET rest == consume_while(consume_char_unchecked(sc), condition) IN
             [scanner |-> rest.scanner, taken |-> <<sc.peek.ch>> \o rest.taken]

\* Scanner::consume_whitespace
consume_whitespace(sc) == consume_while(sc, WhiteSpace)

\* Scanner::take_char_if
take_char_if(sc, condition) ==
    IF sc.peek # None /\ sc.peek.ch \in condition
        THEN [scanner |-> consume_char_unchecked(sc), ret |-> sc.peek,
              taken |-> <<sc.peek.ch>>]
        ELSE [scanner |-> sc, ret |-> None, taken |-> <<>>]

\* Scanner::take_char_if_eq
take_char_if_eq(sc, expected) ==
    IF sc.peek # Some(expected)
        THEN [scanner |-> sc, ret |-> Bool(FALSE), taken |-> <<>>]
        ELSE [scanner |-> consume_char_unchecked(sc), ret |-> Bool(TRUE),
              taken |-> <<sc.peek.ch>>]

\* Scanner::take_line
take_line(sc) ==
    LET from == sc.head
        c == consume_line(sc)
    IN  [scanner |-> c.scanner, ret |-> Str(slice_back_unchecked(c.scanner, from)),
         taken |-> c.taken]

\* Scanner::take_while
take_while(sc, predicate) ==
    LET from == sc.head
        c == consume_while(sc, predicate)
    IN  [scanner |-> c.scanner, ret |-> Str(slice_back_unchecked(c.scanner, from)),
         taken |-> c.taken]

\* Scanner::take_whitespace
take_whitespace(sc) ==
    LET from == sc.head
        c == consume_whitespace(sc)
    IN  [scanner |-> c.scanner, ret |-> Str(slice_back_unchecked(c.scanner, from)),
         taken |-> c.taken]

\* A caller calls the method named name on scanner, which leaves it as
\* after, returns ret and has consumed the chars taken.
ScannerCall(name, after, ret, taken) ==
    /\ mode = "scanner"
    /\ op' = name
    /\ scanner' = after
    /\ scanner_ret' = ret
    /\ scanner_out' = scanner_out \o taken
    /\ UNCHANGED <<src, src_chars, lite, lite_ret, lite_out, reader_vars, char_vars>>

\* A method that takes &self and returns ret.
ScannerGet(name, ret) == ScannerCall(name, scanner, ret, <<>>)

\* A method that takes &mut self, r being what it gives.
ScannerTake(name, r) == ScannerCall(name, r.scanner, r.ret, r.taken)

AsPtr == ScannerGet("as_ptr", Usize(as_ptr(scanner)))

Column == ScannerGet("column", Usize(column(scanner)))

Line == ScannerGet("line", Usize(line(scanner)))

PeekChar == ScannerGet("peek_char", peek_char(scanner))

Position == ScannerGet("position", Usize(position(scanner)))

PrecedingStr == ScannerGet("preceding_str", Str(preceding_str(scanner)))

RemainingLen == ScannerGet("remaining_len", Usize(remaining_len(scanner)))

RemainingStr == ScannerGet("remaining_str", Str(remaining_str(scanner)))

\* from is a pointer the caller got from as_ptr before: the place of the
\* head after some of the chars consumed so far.
SliceBackUnchecked ==
    \E k \in 0 .. Len(scanner_out) :
        LET from == scanner.start + Len(EncodeStr(SubSeq(scanner_out, 1, k))) IN
        ScannerGet("slice_back_unchecked", Str(slice_back_unchecked(scanner, from)))

TakeChar == ScannerTake("take_char", take_char(scanner))

TakeCharIf ==
    \E condition \in Conditions :
        ScannerTake("take_char_if", take_char_if(scanner, condition))

TakeCharIfEq ==
    \E expected \in ScanChars :
        ScannerTake("take_char_if_eq", take_char_if_eq(scanner, expected))

TakeLine == ScannerTake("take_line", take_line(scanner))

TakeWhile ==
    \E predicate \in Conditions :
        ScannerTake("take_while", take_while(scanner, predicate))

TakeWhitespace == ScannerTake("take_whitespace", take_whitespace(scanner))

\* A caller with a ScannerLite over a &str, or one with a Scanner over it.
InitScan ==
    /\ \E cs \in ScanStrings : NewScanners(cs)
    /\ NewReader(<<>>, <<>>, 0)
    /\ InitIter
    /\ mode \in {"lite", "scanner"}

NextLite ==
    \/ ExpectChar \/ ExpectStr \/ IsDone \/ NextChar \/ NextLine \/ PeekByte
    \/ LitePeekChar \/ LiteRemainingLen \/ LiteRemainingStr
    \/ SkipAsciiWhitespace \/ SkipChar \/ SkipCharsWhile \/ SkipWhitespace

NextScanner ==
    \/ AsPtr \/ Column \/ Line \/ PeekChar \/ Position \/ PrecedingStr
    \/ RemainingLen \/ RemainingStr \/ SliceBackUnchecked
    \/ TakeChar \/ TakeCharIf \/ TakeCharIfEq \/ TakeLine \/ TakeWhile
    \/ TakeWhitespace

NextScan == NextLite \/ NextScanner

SpecScan == InitScan /\ [][NextScan]_vars

\* ------------------------------------------------------- chunk reader claims

\* The well-formed part of the stream.
ValidPart == EncodeStr(input_chars)

\* The stream is valid UTF-8: nothing malformed follows its well-formed part.
WellFormed == input = ValidPart

\* Offset n of the stream lies between two chars of its well-formed part.
IsBoundary(n) ==
    \E k \in 0 .. Len(input_chars) : Len(EncodeStr(SubSeq(input_chars, 1, k))) = n

\* No error, every chunk is a run of whole chars of the stream that follows
\* the chunks before it, and "no data" comes once the whole stream is out.
ChunksFaithful ==
    /\ result # "InvalidData"
    /\ ~src_failed => result \in {"NoCall", "Ok(true)", "Ok(false)"}
    /\ IsPrefix(out, input)
    /\ IsBoundary(Len(out))
    /\ (pc = "idle" /\ result = "Ok(true)") =>
            /\ len_utf8 > 0
            /\ IsBoundary(Len(out) - len_utf8)
            /\ chunk = SubSeq(input, Len(out) - len_utf8 + 1, Len(out))
    /\ result = "Ok(false)" => out = input

\* C1: with a buffer of 4 bytes or more and a valid UTF-8 stream, however the
\* source splits it across reads and interrupts them, read_chunk returns no
\* error, every chunk is made of whole chars, and the chunks up to the first
\* "no data" concatenate to the stream.
C1_ValidStreamReproduced == (cap >= 4 /\ WellFormed) => ChunksFaithful

\* A chunk was returned that starts with the completion of a multi-byte char
\* whose first bytes were carried over from the chunk before.
C1_Witness ==
    /\ cap >= 4 /\ WellFormed /\ ~src_failed
    /\ pc = "idle" /\ result = "Ok(true)"
    /\ carried > 0 /\ len_utf8 > carried /\ buf[1] >= 128
    /\ ChunksFaithful

\* Every char of the stream fits the buffer.
CharsFit == \A i \in 1 .. Len(input_chars) : Len(EncodeUtf8(input_chars[i])) <= cap

\* C2: with a buffer of fewer than 4 bytes and a valid stream whose chars each
\* fit the buffer, read_chunk still returns no error, splits no char and the
\* chunks concatenate to the stream; a char straddling two fills is carried
\* over and completed in the next chunk.
C2_SmallBufferReproduced == (cap < 4 /\ WellFormed /\ CharsFit) => ChunksFaithful

\* In a 3-byte buffer the last chunk of a stream was returned, and it starts
\* with a multi-byte char whose first bytes were carried over.
C2_Witness ==
    /\ cap = 3 /\ WellFormed /\ CharsFit /\ ~src_failed
    /\ pc = "idle" /\ result = "Ok(true)"
    /\ carried > 0 /\ len_utf8 > carried /\ buf[1] >= 128
    /\ out = input

\* C3: with a buffer of 4 bytes or more and a stream that is not valid UTF-8,
\* the chunks returned never go beyond the longest valid prefix, the
\* invalid-encoding error comes only once exactly that prefix is out, "no
\* data" is never reported, and a stream starting with an invalid byte yields
\* no chunk at all.
C3_InvalidNeverSkipped ==
    (cap >= 4 /\ ~WellFormed) =>
        /\ IsPrefix(out, ValidPart)
        /\ result = "InvalidData" => out = ValidPart
        /\ result # "Ok(false)"
        /\ input_chars = <<>> => result # "Ok(true)"

\* The invalid-encoding error was returned after chunks were, for bytes
\* carried over from the chunk before.
C3_Witness ==
    /\ cap >= 4 /\ ~WellFormed
    /\ pc = "idle" /\ result = "InvalidData"
    /\ carried > 0 /\ out # <<>> /\ out = ValidPart

\* C4: read_chunk returns "no data" exactly when the buffer holds no bytes
\* after the fill loop, which is when nothing was carried over and the source
\* is exhausted, having delivered no byte to this call; then
\* len = len_utf8 = 0 and chunk() is empty.  On an empty stream read_chunk
\* returns "no data".
C4_NoDataIffExhausted ==
    (pc = "idle" /\ result # "NoCall") =>
        /\ result = "Ok(false)" <=> (result \notin ErrorKinds /\ len = 0)
        /\ result = "Ok(false)" =>
                /\ carried = 0 /\ pos = Len(input)
                /\ len = 0 /\ len_utf8 = 0 /\ chunk = <<>>
        /\ input = <<>> => result \in {"Ok(false)"} \cup ErrorKinds

\* C4 holds of every buffer that can hold a byte, where "no data" is
\* returned only on the source's own report of exhaustion.
C4_HoldsForRealBuffers ==
    cap >= 1 =>
        /\ C4_NoDataIffExhausted
        /\ (pc = "idle" /\ result = "Ok(false)") => last_io = "eof"

C6_InterruptionTransparent ==
    [][last_io' = "interrupted" =>
        /\ pc = "fill" /\ pc' = "fill"
        /\ UNCHANGED <<pos, buf, len, len_utf8, result, carried, out, char_vars>>]_vars

\* A read was interrupted after an earlier read of the same call delivered
\* bytes.
C6_Witness == pc = "fill" /\ last_io = "interrupted" /\ len > carried

\* C7: a hard error of the source ends read_chunk at once with that same
\* error: no further read, no validation, and chunk() is left empty.
C7_HardErrorPropagated ==
    [][(pc = "fill" /\ last_io' \in ErrorKinds) =>
        /\ pc' = "idle"
        /\ result' = last_io'
        /\ len_utf8' = 0
        /\ UNCHANGED <<pos, buf, len, out>>]_vars

\* A read failed after earlier reads of the same call delivered bytes.
C7_Witness ==
    /\ pc = "idle" /\ result \in ErrorKinds /\ last_io = result
    /\ len > carried /\ chunk = <<>>

\* The n bytes of b are the first bytes of a char that more bytes could
\* complete.
Incomplete(b, n) ==
    /\ n > 0
    /\ Utf8CharWidth(b[1]) > n
    /\ n >= 2 => SecondByteOk(b[1], b[2])
    /\ n >= 3 => IsCont(b[3])

\* C8: read_chunk returns the invalid-encoding error only for a buffer that
\* starts with bytes that can never become valid UTF-8, never for one that
\* starts with a char that is merely incomplete.
C8_InvalidOnlyWhenHopeless ==
    (pc = "idle" /\ result = "InvalidData") => ~Incomplete(buf, len)

\* C18: with a source that never reports more bytes than the region it was
\* given, 0 <= len_utf8 <= len <= capacity holds after construction, after
\* every read_chunk whatever it returned, and inside the call too; and the
\* source is only called with a region that is not empty.
C18_FillStateBounds ==
    /\ 0 <= len_utf8 /\ len_utf8 <= len /\ len <= cap
    /\ Len(buf) = cap
    /\ pc = "fill" => len < cap

\* read_chunk has returned an error with the buffer partly filled, a tail
\* carried over from the chunk before being part of it.
C18_Witness ==
    /\ pc = "idle" /\ result \in ErrorKinds
    /\ carried > 0 /\ carried < len /\ len < cap
    /\ len_utf8 = 0

\* The bytes of the buffer after the chunk: buf[len_utf8, len).
Dangling == SubSeq(buf, len_utf8 + 1, len)

\* A step that starts a read_chunk moves the bytes after the chunk, and no
\* others, to offset 0, before any byte is filled in.
DanglingMoved ==
    (pc = "idle" /\ pc' = "fill") =>
        /\ len' = Len(Dangling)
        /\ carried' = Len(Dangling)
        /\ SubSeq(buf', 1, len') = Dangling
        /\ pos' = pos

\* C19 as stated: after every read_chunk that returns true, buf[len_utf8,
\* len) is nothing or the first bytes, at most 3, of one char that more
\* bytes could complete, and the next read_chunk moves just these bytes to
\* offset 0 before filling.
C19_TailIsOneIncompleteChar ==
    [][(pc = "idle" /\ result = "Ok(true)") =>
            /\ Dangling = <<>> \/ Incomplete(Dangling, Len(Dangling))
            /\ Len(Dangling) <= 3
            /\ DanglingMoved
      ]_vars

\* C19, amended: after every read_chunk that returns true, buf[len_utf8,
\* len) is nothing, or the first bytes, at most 3, of one char that more
\* bytes could complete, or bytes that start with a sequence no char
\* starts with, which happens only when the stream is not well-formed from
\* there on; in each case the next read_chunk moves just these bytes to
\* offset 0 before filling.
C19_TailIsIncompleteOrInvalid ==
    [][(pc = "idle" /\ result = "Ok(true)") =>
            /\ \/ Dangling = <<>>
               \/ Incomplete(Dangling, Len(Dangling)) /\ Len(Dangling) <= 3
               \/ /\ ~WellFormed
                  /\ ValidUpTo(Dangling, 0, Len(Dangling)) = 0
                  /\ ~Incomplete(Dangling, Len(Dangling))
            /\ WellFormed => Len(Dangling) <= 3
            /\ DanglingMoved
      ]_vars

\* read_chunk has returned true with two bytes of an incomplete char after
\* the chunk, and the next read_chunk has moved them to offset 0 and waits
\* for the source.
C19_Witness ==
    /\ pc = "fill" /\ last_io = "none"
    /\ result = "Ok(true)"
    /\ carried = 2 /\ len = 2
    /\ Incomplete(SubSeq(buf, 1, 2), 2)
    /\ out # <<>>

\* C20: every read_chunk returns, given that each call of the source
\* returns and that the source does not go on signalling interruption for
\* ever. Inside a call the loop goes on after a read that leaves room in
\* the buffer and ends only with the buffer full, with the source
\* reporting 0 bytes or with another error; so a read_chunk that returned
\* true has filled the buffer or has seen the source report 0 bytes.
C20_ReadChunkTerminates ==
    /\ (pc = "fill") ~> (pc = "idle")
    /\ [][/\ (pc = "fill" /\ last_io' \in {"ok", "interrupted"} /\ len' # cap) =>
                pc' = "fill"
          /\ (pc = "fill" /\ pc' = "idle") =>
                (len' = cap \/ last_io' = "eof" \/ last_io' \in ErrorKinds)
         ]_vars
    /\ []((pc = "idle" /\ result = "Ok(true)") => (len = cap \/ last_io = "eof"))

\* read_chunk has returned true on the source reporting 0 bytes, with room
\* left in the buffer after several bytes read in this call.
C20_Witness ==
    /\ pc = "idle" /\ result = "Ok(true)"
    /\ last_io = "eof"
    /\ len < cap /\ len - carried >= 2

\* The bytes the source has delivered and no chunk has returned yet.
Pending == SubSeq(input, Len(out) + 1, pos)

\* C21: a hard error of the source loses no data. The call that fails
\* leaves the bytes of the buffer where they are, as a tail that is not
\* validated; they are the bytes delivered and not yet returned. The next
\* read_chunk carries all of them over, and the chunks returned before and
\* after the error are still consecutive parts of the stream, which is all
\* out when "no data" is reported and, for a valid stream whose chars fit
\* the buffer, comes out without an invalid-encoding error.
C21_HardErrorLosesNoData ==
    [][/\ (pc = "fill" /\ last_io' \in ErrorKinds) =>
            /\ buf' = buf /\ len' = len /\ pos' = pos
            /\ len_utf8' = 0 /\ out' = out
            /\ SubSeq(buf', 1, len') = Pending'
       /\ (pc = "idle" /\ result \in ErrorKinds /\ pc' = "fill") =>
            /\ carried' = len /\ len' = len
            /\ SubSeq(buf', 1, len') = SubSeq(buf, 1, len)
            /\ pos' = pos
       /\ src_failed' =>
            /\ Dangling' = Pending'
            /\ IsPrefix(out', input)
            /\ result' = "Ok(false)" => out' = input
            /\ (WellFormed /\ (cap >= 4 \/ CharsFit)) => ChunksFaithful'
      ]_vars

\* The whole of a valid stream is out, in chunks returned before a hard
\* error and after it; the last chunk starts with a one-byte char that was
\* in the buffer when the error came.
C21_Witness ==
    /\ WellFormed /\ cap >= 4 /\ src_failed
    /\ pc = "idle" /\ result = "Ok(true)"
    /\ carried > 0 /\ buf[1] < 128
    /\ Len(out) > len_utf8
    /\ out = input

\* ------------------------------------------------------- char reader claims

\* C9: with a buffer of 4 bytes or more and a valid stream, read_char returns
\* the chars of the stream in order, none lost or repeated across a refill,
\* and then None; it fails only when the source does, and it calls
\* read_chunk only when the cursor over the current chunk is exhausted.
C9_CharsInOrder ==
    (cap >= 4 /\ WellFormed) =>
        /\ IsPrefix(chars_out, input_chars)
        /\ char_ret.tag = "Some" =>
                chars_out # <<>> /\ char_ret = Some(chars_out[Len(chars_out)])
        /\ char_ret = None => chars_out = input_chars
        /\ char_ret = Failed => src_failed
        /\ pc = "fill" => iter_ptr = iter_end

\* read_char returned None after chars of several chunks, one of them a
\* multi-byte char completed from bytes carried over.
C9_Witness ==
    /\ cap >= 4 /\ WellFormed /\ ~src_failed
    /\ pc = "idle" /\ char_ret = None
    /\ chars_out = input_chars
    /\ Len(input) > cap
    /\ \E k \in 1 .. Len(input_chars) :
        LET before == Len(EncodeStr(SubSeq(input_chars, 1, k - 1))) IN
        before < cap /\ before + Len(EncodeUtf8(input_chars[k])) > cap

\* ----------------------------------------------------------- scanner claims

\* The last element of a non-empty sequence.
Last(s) == s[Len(s)]

\* C10: consuming a string one char at a time, with ScannerLite::next_char
\* or with Scanner::take_char, yields the chars of the string in order, and
\* None only once all of them are out; the scanner is then done, with
\* nothing remaining.
C10_ScannersYieldChars ==
    /\ IsPrefix(lite_out, src_chars)
    /\ (op = "next_char" /\ lite_ret.tag = "Some") =>
            (lite_out # <<>> /\ lite_ret = Some(Last(lite_out)))
    /\ (op = "next_char" /\ lite_ret = None) =>
            /\ lite_out = src_chars
            /\ is_done(lite)
            /\ lite_remaining_len(lite) = 0
    /\ IsPrefix(scanner_out, src_chars)
    /\ (op = "take_char" /\ scanner_ret.tag = "Some") =>
            (scanner_out # <<>> /\ scanner_ret = Some(Last(scanner_out)))
    /\ (op = "take_char" /\ scanner_ret = None) =>
            /\ scanner_out = src_chars
            /\ remaining_len(scanner) = 0
            /\ position(scanner) = Len(src)

\* A scanner has returned None at the end of a string of several chars, one
\* of them of more than one byte and one a newline.
C10_Witness ==
    /\ \/ op = "next_char" /\ lite_ret = None /\ lite_out = src_chars
       \/ op = "take_char" /\ scanner_ret = None /\ scanner_out = src_chars
    /\ Len(src_chars) >= 3 /\ Len(src) > Len(src_chars)
    /\ \E i \in 1 .. Len(src_chars) : src_chars[i] = 10

\* What peek_byte gives when the next consuming call would return item: the
\* first byte of the char's encoding.
FirstByte(item) == IF item = None THEN None ELSE Some(EncodeUtf8(item.ch)[1])

\* C11: peek_char and peek_byte are pure look-aheads. A call leaves the
\* scanner as it was, so position, line, column and the remaining string
\* stay, and returns what the next consuming call then returns (for
\* peek_byte, its first byte); a call right after another call of the
\* same method returns the same value.
C11_PeekIsPure ==
    [][/\ (mode = "lite" /\ op' = "peek_char") =>
            /\ lite' = lite /\ lite_out' = lite_out
            /\ lite_remaining_str(lite') = lite_remaining_str(lite)
            /\ lite_ret' = next_char(lite').ret
            /\ op = "peek_char" => lite_ret' = lite_ret
       /\ (mode = "lite" /\ op' = "peek_byte") =>
            /\ lite' = lite /\ lite_out' = lite_out
            /\ lite_ret' = FirstByte(next_char(lite').ret)
            /\ op = "peek_byte" => lite_ret' = lite_ret
       /\ (mode = "scanner" /\ op' = "peek_char") =>
            /\ scanner' = scanner /\ scanner_out' = scanner_out
            /\ position(scanner') = position(scanner)
            /\ line(scanner') = line(scanner)
            /\ column(scanner') = column(scanner)
            /\ remaining_str(scanner') = remaining_str(scanner)
            /\ scanner_ret' = take_char(scanner').ret
            /\ op = "peek_char" => scanner_ret' = scanner_ret
      ]_vars

\* peek_char has returned a char of three bytes that follows chars already
\* consumed.
C11_Witness ==
    /\ mode = "lite" /\ op = "peek_char"
    /\ lite_ret = Some(8364)
    /\ lite.start > 0 /\ lite_out # <<>>

RECURSIVE NewlineCount(_)
\* The number of newline chars among the chars s.
NewlineCount(s) ==
    IF s = <<>> THEN 0
    ELSE (IF s[1] = 10 THEN 1 ELSE 0) + NewlineCount(Tail(s))

RECURSIVE SinceLastNewline(_)
\* The number of chars of s after its last newline, or of s if it has none.
SinceLastNewline(s) ==
    IF s = <<>> \/ s[Len(s)] = 10 THEN 0
    ELSE 1 + SinceLastNewline(SubSeq(s, 1, Len(s) - 1))

\* C12: the position law. Whatever methods of Scanner consumed the chars,
\* line is 1 plus the number of newlines among the chars consumed and
\* column is 1 plus the number of chars consumed since the last newline
\* (since the start, if there is none): chars, not bytes.
C12_PositionLaw ==
    /\ line(scanner) = 1 + NewlineCount(scanner_out)
    /\ column(scanner) = 1 + SinceLastNewline(scanner_out)

\* Of "a\nbc", 'a', the newline and 'b' are consumed: line 2, column 2.
C12_Witness ==
    /\ mode = "scanner"
    /\ src_chars = Lines
    /\ scanner_out = <<97, 10, 98>>
    /\ line(scanner) = 2 /\ column(scanner) = 2

RECURSIVE SumLenUtf8(_)
\* The sum of the UTF-8 lengths of the chars s.
SumLenUtf8(s) == IF s = <<>> THEN 0 ELSE CharLenUtf8(s[1]) + SumLenUtf8(Tail(s))

\* C13: in every state of a Scanner, position is the sum of the UTF-8
\* lengths of the chars consumed so far, preceding_str is that many first
\* bytes of the source, remaining_str is the rest, remaining_len is the
\* length of the source less position, and preceding_str followed by
\* remaining_str is the source.
C13_PositionAndSlices ==
    /\ position(scanner) = SumLenUtf8(scanner_out)
    /\ preceding_str(scanner) = SubSeq(src, 1, position(scanner))
    /\ remaining_str(scanner) = SubSeq(src, position(scanner) + 1, Len(src))
    /\ remaining_len(scanner) = Len(src) - position(scanner)
    /\ preceding_str(scanner) \o remaining_str(scanner) = src

\* The scanner is inside its string, past chars of more than one byte and
\* before others.
C13_Witness ==
    /\ mode = "scanner"
    /\ scanner_out # <<>>
    /\ Len(scanner_out) < position(scanner)
    /\ position(scanner) < Len(src) - 1

\* The chars a ScannerLite has left, and those a Scanner has left.
LiteRemainingChars == DecodeRange(src, lite.start, lite.end)
ScannerRemainingChars == DecodeRange(src, scanner.head, Len(src))

\* C14: in every state, ScannerLite::expect_char(c) and expect_str(s)
\* return true and advance the cursor by the UTF-8 length of the literal if
\* the remaining string starts with the literal, and return false and
\* leave the scanner as it is if not; expect_str("") returns true without
\* moving. Scanner::take_char_if_eq(c) does the same for one char, and on
\* false leaves position, line and column as they are.
C14_ExpectIffStartsWith ==
    /\ \A c \in ScanChars :
            LET r == expect_char(lite, c) IN
            IF IsPrefix(<<c>>, LiteRemainingChars)
                THEN r.ret = Bool(TRUE)
                        /\ r.lite = [lite EXCEPT !.start = @ + CharLenUtf8(c)]
                ELSE r.ret = Bool(FALSE) /\ r.lite = lite
    /\ \A s \in Literals :
            LET r == expect_str(lite, s) IN
            IF IsPrefix(s, LiteRemainingChars)
                THEN r.ret = Bool(TRUE)
                        /\ r.lite = [lite EXCEPT !.start = @ + SumLenUtf8(s)]
                ELSE r.ret = Bool(FALSE) /\ r.lite = lite
    /\ expect_str(lite, <<>>) = [lite |-> lite, ret |-> Bool(TRUE)]
    /\ \A c \in ScanChars :
            LET r == take_char_if_eq(scanner, c) IN
            IF IsPrefix(<<c>>, ScannerRemainingChars)
                THEN /\ r.ret = Bool(TRUE)
                     /\ position(r.scanner) = position(scanner) + CharLenUtf8(c)
                     /\ r.taken = <<c>>
                ELSE /\ r.ret = Bool(FALSE)
                     /\ r.scanner = scanner
                     /\ r.taken = <<>>

\* expect_str has matched a literal of more bytes than chars and has left
\* the scanner before the end of the string; the literal is not one that
\* matches there again.
C14_Witness ==
    /\ mode = "lite" /\ op = "expect_str"
    /\ lite_ret = Bool(TRUE)
    /\ Len(lite_out) = 2 /\ lite.start > 2
    /\ ~is_done(lite)
    /\ expect_str(lite, lite_out).ret = Bool(FALSE)

\* The methods that only inspect a scanner, and those that consume.
Inspections ==
    {"is_done", "peek_byte", "peek_char", "remaining_len", "remaining_str",
     "as_ptr", "column", "line", "position", "preceding_str",
     "slice_back_unchecked"}
Consumers ==
    {"expect_char", "expect_str", "next_char", "next_line",
     "skip_ascii_whitespace", "skip_char", "skip_chars_while", "skip_whitespace",
     "take_char", "take_char_if", "take_char_if_eq", "take_line", "take_while",
     "take_whitespace"}

\* What a method returns when it has consumed nothing: None, false, "" or
\* (), and true from expect_str for the empty literal.
NothingConsumed(name, ret) ==
    \/ ret \in {None, Bool(FALSE), Str(<<>>), Unit}
    \/ name = "expect_str" /\ ret = Bool(TRUE)

\* C16: the scanners only move forward. No call moves the cursor back or
\* out of [0, N], N being the length of the source in bytes; a method that
\* inspects leaves the scanner as it is; and with the cursor at N a method
\* that consumes reports nothing consumed and leaves the scanner as it is.
C16_ForwardOnly ==
    [][/\ lite'.start >= lite.start
       /\ 0 <= lite'.start /\ lite'.start <= lite'.end
       /\ lite'.end = lite.end /\ lite'.end = Len(src)
       /\ position(scanner') >= position(scanner)
       /\ 0 <= position(scanner') /\ position(scanner') <= Len(src)
       /\ scanner'.start = scanner.start
       /\ op' \in Inspections =>
            (lite' = lite /\ scanner' = scanner
                /\ lite_out' = lite_out /\ scanner_out' = scanner_out)
       /\ (mode = "lite" /\ op' \in Consumers /\ lite.start = Len(src)) =>
            (lite' = lite /\ lite_out' = lite_out
                /\ NothingConsumed(op', lite_ret'))
       /\ (mode = "scanner" /\ op' \in Consumers /\ position(scanner) = Len(src)) =>
            (scanner' = scanner /\ scanner_out' = scanner_out
                /\ NothingConsumed(op', scanner_ret'))
      ]_vars

\* With the cursor at the end of a string of several chars, take_line has
\* returned "".
C16_Witness ==
    /\ mode = "scanner" /\ op = "take_line"
    /\ scanner_ret = Str(<<>>)
    /\ position(scanner) = Len(src) /\ Len(src) >= 3

\* C17: in every state of a ScannerLite, skip_char returns false and does
\* not move if nothing remains; if not, it returns true and advances by 1
\* for a first byte below 0x80 and by the number of leading one bits of the
\* first byte otherwise, which is the number of bytes next_char consumes:
\* both leave the cursor at the same offset.
C17_SkipCharAsNextChar ==
    LET s == skip_char(lite)
        n == next_char(lite)
    IN  /\ s.lite = n.lite
        /\ s.ret = Bool(n.ret # None)
        /\ lite_remaining_len(lite) = 0 => (s.ret = Bool(FALSE) /\ s.lite = lite)
        /\ lite_remaining_len(lite) > 0 =>
                /\ s.ret = Bool(TRUE)
                /\ s.lite.start - lite.start =
                        IF src[lite.start + 1] < 128 THEN 1
                        ELSE leading_ones(src[lite.start + 1])
                /\ s.lite.start - lite.start = CharLenUtf8(n.ret.ch)

\* skip_char has skipped a char of four bytes that follows other chars.
C17_Witness ==
    /\ mode = "lite" /\ op = "skip_char"
    /\ lite_ret = Bool(TRUE)
    /\ Len(lite_out) >= 2 /\ Last(lite_out) = 128512
    /\ lite.start >= 5

\* The source is made of ASCII bytes only.
IsAscii == \A i \in 1 .. Len(src) : src[i] < 128

\* C22: on a source of ASCII bytes only, skip_ascii_whitespace and
\* skip_whitespace leave the cursor at the same offset, from every state
\* of the scanner.
C22_AsciiSkipsAgree ==
    IsAscii => skip_ascii_whitespace(lite).start = skip_whitespace(lite).start

\* The two agree on the ASCII sources that hold no vertical tab.
C22_AgreeWithoutVerticalTab ==
    (IsAscii /\ \A i \in 1 .. Len(src) : src[i] # 11) =>
        skip_ascii_whitespace(lite).start = skip_whitespace(lite).start

====
